---- MODULE Spec2Model ----
(***************************************************************************)
(* Model of the page-object test suite: the authenticated_page fixture     *)
(* (conftest.py) with the page/context fixtures around it, the Ant Design  *)
(* dropdown handler BasePage.ant_select_option (pages/base_page.py), and   *)
(* the methods of BasePage and of the page objects as sequences of driver  *)
(* calls.                                                                  *)
(* The browser driver is the environment: every driver call either         *)
(* returns or raises, chosen nondeterministically within what the page     *)
(* content allows.                                                         *)
(***************************************************************************)
EXTENDS Integers, Sequences, FiniteSets, TLC

\* ------------------------------------------------------------------------
\* Bounds
\* ------------------------------------------------------------------------
\* number of tests run one after the other in the session
MaxTests == 2
\* number of option elements rendered on the page
MaxOptions == 2

VARIABLES
    \* --- test lifecycle around authenticated_page ---
    testNo,       \* index of the test being run
    fpc,          \* position of the fixture chain of the current test
    stepIdx,      \* index in SetupSteps of the next setup step
    started,      \* setup steps whose call was started, in order
    returned,     \* setup steps that returned without raising, in order
    pending,      \* exception travelling to the except clause, or NoError
    raisedErr,    \* exception that left the fixture, or NoError
    errorLogged,  \* logger.error("Authentication setup failed") was written
    shots,        \* screenshot attempts of this test, in order
    yielded,      \* the fixture reached `yield page`
    bodyRuns,     \* how many times the test body ran
    bodyOutcome,  \* "none", "passed" or "failed": result of the test body
    bodyInSession,\* session state in which the test body ran, or "none"
    logoutCalls,  \* invocations of click_to_logout
    clicks,       \* logout-flow clicks attempted, in order
    failedIn,     \* "none", "setup" or "teardown": where the exception arose
    session,      \* session state of the test
    pageOpen,     \* the page fixture's page is open
    ctxOpen,      \* the context fixture's context is open
    browserLaunches, \* how many times the browser was launched
    contexts,     \* browser contexts created in the session, in order
    pages,        \* pages created in the session, in order
    \* --- one invocation of ant_select_option ---
    spc,          \* position inside ant_select_option
    optionText,   \* argument option_text
    opts,         \* option elements present on the page
    indicator,    \* state of the .ant-select-loading element
    step1,        \* outcome of the loading-indicator wait
    events,       \* driver calls made by the invocation, in order
    triggerClicks,\* clicks on the dropdown trigger
    clicked,      \* option elements clicked, in order
    via,          \* strategy that produced the normal return
    primaryRaised,\* the primary strategy raised
    panelSeen,    \* the panel was observed visible after the trigger click
    panelWaitFailed, \* the wait for the visible panel raised
    closedSeen,   \* the panel was observed hidden after the last option click
    selErr,       \* exception that left ant_select_option, or NoError
    \* --- one call of a page-object method by the test body ---
    opName,       \* name of the method called, "none" when there is none
    inp,          \* arguments of the call and state of the page it meets
    opc,          \* "idle", "run", "except", "returned", "raised" or "hung"
    pcIdx,        \* index in Program(opName, inp) of the next driver call
    opCalls,      \* driver calls made by the method, in order
    opOuts,       \* outcome of each of these calls: "ok" or "error"
    opPending,    \* exception travelling to the caller, or NoError
    opErr,        \* exception the caller received, or NoError
    opShots,      \* screenshot attempts of the call, in order
    fieldVal,     \* value held by each input field of the page
    savedAt,      \* path a download was saved at, or "none"
    objs,         \* page objects that exist, in order of construction
    opResult,     \* position in objs of the page object returned, or 0
    results,      \* results of the earlier calls of the method on this page
    opLog,        \* entries the log_method wrapper of the method wrote
    funcOut       \* how the wrapped method itself ended

authVars == << testNo, fpc, stepIdx, started, returned, pending, raisedErr,
               errorLogged, shots, yielded, bodyRuns, bodyOutcome,
               bodyInSession, logoutCalls, clicks, failedIn, session,
               pageOpen, ctxOpen, browserLaunches, contexts, pages >>

\* What the browser, context and page fixtures create and close.
lifeVars == << browserLaunches, contexts, pages >>

selVars == << spc, optionText, opts, indicator, step1, events, triggerClicks,
              clicked, via, primaryRaised, panelSeen, panelWaitFailed,
              closedSeen, selErr >>

opVars == << opName, inp, opc, pcIdx, opCalls, opOuts, opPending, opErr,
             opShots, fieldVal, savedAt, objs, opResult, results, opLog,
             funcOut >>

vars == << authVars, selVars, opVars >>

NoError == [type |-> "none", at |-> "none"]

\* The method has not ended.
NotEnded == [outcome |-> "none", result |-> 0, err |-> NoError]

\* ------------------------------------------------------------------------
\* authenticated_page: setup, yield, teardown, failure handler
\* ------------------------------------------------------------------------

\* The driver-level calls of the setup, in program order:
\* go_to_login_page -> navigate_to; login_user -> fill, fill, click, wait;
\* verify_login_successful_load_companies -> two visibility checks;
\* click_default_company_link -> click; verify_self_service_page_loads.
SetupSteps_swapped ==
    << [op |-> "navigate", target |-> "base_url"],
       [op |-> "fill", target |-> "EMAIL_INPUT"],
       [op |-> "fill", target |-> "PASSWORD_INPUT"],
       [op |-> "verify_visible", target |-> "DEFAULT_COMPANY"],
       [op |-> "click", target |-> "SUBMIT_BUTTON"],
       [op |-> "wait", target |-> "5000"],
       [op |-> "verify_visible", target |-> "FLOUR_MILLS_COMPANY"],
       [op |-> "click", target |-> "DEFAULT_LINK"],
       [op |-> "verify_visible", target |-> "PERSONAL_NAME"] >>

SetupSteps ==
    << [op |-> "navigate", target |-> "base_url"],
       [op |-> "fill", target |-> "EMAIL_INPUT"],
       [op |-> "fill", target |-> "PASSWORD_INPUT"],
       [op |-> "click", target |-> "SUBMIT_BUTTON"],
       [op |-> "wait", target |-> "5000"],
       [op |-> "verify_visible", target |-> "DEFAULT_COMPANY"],
       [op |-> "verify_visible", target |-> "FLOUR_MILLS_COMPANY"],
       [op |-> "click", target |-> "DEFAULT_LINK"],
       [op |-> "verify_visible", target |-> "PERSONAL_NAME"] >>

\* The two clicks of SelfServicePage.click_to_logout, in program order.
LogoutSteps_reversed == << "LOGOUT_LINK", "MM_PROFILE" >>

LogoutSteps == << "MM_PROFILE", "LOGOUT_LINK" >>

\* Name under which a failing BasePage method calls _take_screenshot;
\* "none" for the methods that have no except clause (wait).
ScreenshotName(op) ==
    CASE op = "navigate" -> "navigation_error"
      [] op = "click" -> "click_error"
      [] op = "fill" -> "fill_error"
      [] op = "verify_visible" -> "verify_visible_error"
      [] OTHER -> "none"

\* Exception raised by a failing driver call of a page-object method.
DriverError(op, target) == [type |-> "DriverError", at |-> << op, target >>]

\* Exception raised by a failing page.screenshot.
ScreenshotError == [type |-> "DriverError", at |-> << "screenshot", "page" >>]

\* Screenshot attempts a failing BasePage method adds (its own except clause,
\* _take_screenshot swallows a failure of the capture).
ShotsAfterFailure(s, op, saved) ==
    IF ScreenshotName(op) = "none" THEN s
    ELSE Append(s, [name |-> ScreenshotName(op), saved |-> saved])

\* Where the fixture goes after setup step i returned (ok) or raised.
AfterSetupStep_lastUnchecked(i, ok) ==
    IF i = Len(SetupSteps) THEN "yield"
    ELSE IF ok THEN "setup" ELSE "handler"

AfterSetupStep(i, ok) ==
    IF ~ok THEN "handler"
    ELSE IF i = Len(SetupSteps) THEN "yield" ELSE "setup"

\* Where the fixture goes after logout click k returned (ok) or raised:
\* the teardown lies inside the same try block as the setup.
AfterLogoutStep(k, ok) ==
    IF ~ok THEN "handler"
    ELSE IF k = Len(LogoutSteps) THEN "fixture_done" ELSE "teardown"

\* The exception the except clause lets out: the bare `raise` re-raises the
\* handled exception; a failure of the screenshot is swallowed by the inner
\* try/except.
HandlerRaise_unguarded(exc, saved) == IF saved THEN exc ELSE ScreenshotError

HandlerRaise(exc, saved) == exc

\* Scope of the fixtures that create the browser, the context and the page.
FixtureScope_sessionContext(f) ==
    CASE f = "browser" -> "session"
      [] f = "context" -> "session"
      [] f = "page" -> "function"

FixtureScope(f) ==
    CASE f = "browser" -> "session"
      [] f = "context" -> "function"
      [] f = "page" -> "function"

\* A fixture is set up again for the next test when its scope is the
\* function; a session-scoped fixture is set up once and its value reused.
SetUpPerTest(f) == FixtureScope(f) = "function"

\* browser.new_context(...) for test t.
NewContext(cs, t) == Append(cs, [test |-> t, open |-> TRUE])

\* context.new_page() for test t, in the context the context fixture
\* yielded, the last one created.
NewPage(ps, cs, t) ==
    Append(ps, [test |-> t, context |-> Len(cs), open |-> TRUE])

\* close() on the object the fixture created and yielded.
Close(seq) == [seq EXCEPT ![Len(seq)].open = FALSE]

\* Positions of the fixture chain from which the finalizer of a fixture
\* runs: pytest finalizes in the reverse of the set-up order, page depends
\* on context and authenticated_page on page.
CloseAfter_contextFirst(f) ==
    CASE f = "context" -> {"fixture_done", "raised"}
      [] f = "page" -> {"context_closed"}

CloseAfter(f) ==
    CASE f = "page" -> {"fixture_done", "raised"}
      [] f = "context" -> {"page_closed"}

\* The browser was launched and the fixtures of the first test created its
\* context and its page.
FirstTestCreated ==
    /\ browserLaunches = 1
    /\ contexts = NewContext(<< >>, 1)
    /\ pages = NewPage(<< >>, NewContext(<< >>, 1), 1)

\* State of a test right after the context and page fixtures created the
\* context and the page.
FreshTest ==
    /\ fpc = "page_ready"
    /\ stepIdx = 1
    /\ started = << >>
    /\ returned = << >>
    /\ pending = NoError
    /\ raisedErr = NoError
    /\ errorLogged = FALSE
    /\ shots = << >>
    /\ yielded = FALSE
    /\ bodyRuns = 0
    /\ bodyOutcome = "none"
    /\ bodyInSession = "none"
    /\ logoutCalls = 0
    /\ clicks = << >>
    /\ failedIn = "none"
    /\ session = "Anonymous"
    /\ pageOpen = TRUE
    /\ ctxOpen = TRUE

\* ant_select_option is not running.
SelectIdle ==
    /\ spc = "idle"
    /\ optionText = << >>
    /\ opts = {}
    /\ indicator = "absent"
    /\ step1 = "none"
    /\ events = << >>
    /\ triggerClicks = 0
    /\ clicked = << >>
    /\ via = "none"
    /\ primaryRaised = FALSE
    /\ panelSeen = FALSE
    /\ panelWaitFailed = FALSE
    /\ closedSeen = FALSE
    /\ selErr = NoError

\* Input fields of the pages whose value the model follows.
Fields == {"INPUT", "BANK_ID", "SORT_CODE"}

\* No page-object method is being called.
NoInput == [attached |-> TRUE, visible |-> TRUE, enabled |-> TRUE,
            value |-> << >>, limit |-> 0, file |-> << >>, exists |-> FALSE,
            allowed |-> {}, title |-> << >>]

OpsIdle ==
    /\ opName = "none"
    /\ inp = NoInput
    /\ opc = "idle"
    /\ pcIdx = 1
    /\ opCalls = << >>
    /\ opOuts = << >>
    /\ opPending = NoError
    /\ opErr = NoError
    /\ opShots = << >>
    /\ fieldVal = [f \in Fields |-> << >>]
    /\ savedAt = "none"
    /\ objs = << >>
    /\ opResult = 0
    /\ results = << >>
    /\ opLog = << >>
    /\ funcOut = NotEnded

Init == testNo = 1 /\ FreshTest /\ FirstTestCreated /\ SelectIdle /\ OpsIdle

\* authenticated_page starts: LoginPage(page) is built and the first step
\* is about to be called.
BeginSetup ==
    /\ fpc = "page_ready"
    /\ fpc' = "setup"
    /\ session' = "LoggingIn"
    /\ UNCHANGED << testNo, stepIdx, started, returned, pending, raisedErr,
                    errorLogged, shots, yielded, bodyRuns, bodyOutcome,
                    bodyInSession, logoutCalls, clicks, failedIn, pageOpen,
                    ctxOpen >>
    /\ UNCHANGED << selVars, opVars, lifeVars >>

\* One setup call runs to its end: it returns, or it raises (after its own
\* screenshot attempt when the method has an except clause).
SetupStep ==
    /\ fpc = "setup"
    /\ \E ok \in BOOLEAN, saved \in BOOLEAN :
        LET s == SetupSteps[stepIdx] IN
        /\ (ok => saved)
        /\ started' = Append(started, s)
        /\ returned' = IF ok THEN Append(returned, s) ELSE returned
        /\ fpc' = AfterSetupStep(stepIdx, ok)
        /\ stepIdx' = IF ok /\ stepIdx < Len(SetupSteps) THEN stepIdx + 1
                      ELSE stepIdx
        /\ pending' = IF ok THEN pending ELSE DriverError(s.op, s.target)
        /\ failedIn' = IF ok THEN failedIn ELSE "setup"
        /\ shots' = IF ok THEN shots ELSE ShotsAfterFailure(shots, s.op, saved)
        /\ session' = IF AfterSetupStep(stepIdx, ok) = "yield"
                      THEN "Authenticated" ELSE session
    /\ UNCHANGED << testNo, raisedErr, errorLogged, yielded, bodyRuns,
                    bodyOutcome, bodyInSession, logoutCalls, clicks, pageOpen,
                    ctxOpen >>
    /\ UNCHANGED << selVars, opVars, lifeVars >>

\* `yield page`: the page is handed to the test.
YieldPage ==
    /\ fpc = "yield"
    /\ fpc' = "body"
    /\ yielded' = TRUE
    /\ UNCHANGED << testNo, stepIdx, started, returned, pending, raisedErr,
                    errorLogged, shots, bodyRuns, bodyOutcome, bodyInSession,
                    logoutCalls, clicks, failedIn, session, pageOpen, ctxOpen >>
    /\ UNCHANGED << selVars, opVars, lifeVars >>

\* The test body runs; whether it passes or fails, pytest then resumes the
\* generator for the teardown (the failure of a test is not thrown into the
\* fixture).
RunTestBody ==
    /\ fpc = "body"
    /\ fpc' = "teardown"
    /\ bodyRuns' = bodyRuns + 1
    /\ bodyOutcome' \in {"passed", "failed"}
    /\ bodyInSession' = session
    /\ UNCHANGED << testNo, stepIdx, started, returned, pending, raisedErr,
                    errorLogged, shots, yielded, logoutCalls, clicks,
                    failedIn, session, pageOpen, ctxOpen >>
    /\ UNCHANGED << selVars, opVars, lifeVars >>

\* One click_element call of click_to_logout.
LogoutStep ==
    /\ fpc = "teardown"
    /\ \E ok \in BOOLEAN, saved \in BOOLEAN :
        LET k == Len(clicks) + 1 IN
        /\ (ok => saved)
        /\ clicks' = Append(clicks, LogoutSteps[k])
        /\ fpc' = AfterLogoutStep(k, ok)
        /\ pending' = IF ok THEN pending
                      ELSE DriverError("click", LogoutSteps[k])
        /\ failedIn' = IF ok THEN failedIn ELSE "teardown"
        /\ shots' = IF ok THEN shots
                    ELSE ShotsAfterFailure(shots, "click", saved)
        /\ session' = IF AfterLogoutStep(k, ok) = "fixture_done"
                      THEN "LoggedOut" ELSE session
        /\ logoutCalls' = IF k = 1 THEN logoutCalls + 1 ELSE logoutCalls
    /\ UNCHANGED << testNo, stepIdx, started, returned, raisedErr,
                    errorLogged, yielded, bodyRuns, bodyOutcome, bodyInSession,
                    pageOpen, ctxOpen >>
    /\ UNCHANGED << selVars, opVars, lifeVars >>

\* except Exception: log, try a screenshot, re-raise.
FailureHandler ==
    /\ fpc = "handler"
    /\ \E saved \in BOOLEAN :
        /\ shots' = Append(shots, [name |-> "auth_error", saved |-> saved])
        /\ raisedErr' = HandlerRaise(pending, saved)
    /\ errorLogged' = TRUE
    /\ pending' = NoError
    /\ fpc' = "raised"
    /\ session' = "Anonymous"
    /\ UNCHANGED << testNo, stepIdx, started, returned, yielded, bodyRuns,
                    bodyOutcome, bodyInSession, logoutCalls, clicks, failedIn,
                    pageOpen, ctxOpen >>
    /\ UNCHANGED << selVars, opVars, lifeVars >>

\* Teardown of the page fixture: page.close().
ClosePage ==
    /\ fpc \in CloseAfter("page")
    /\ fpc' = "page_closed"
    /\ pageOpen' = FALSE
    /\ pages' = Close(pages)
    /\ session' = "Anonymous"
    /\ UNCHANGED << testNo, stepIdx, started, returned, pending, raisedErr,
                    errorLogged, shots, yielded, bodyRuns, bodyOutcome,
                    bodyInSession, logoutCalls, clicks, failedIn, ctxOpen,
                    browserLaunches, contexts >>
    /\ UNCHANGED << selVars, opVars >>

\* Teardown of the context fixture: context.close().
CloseContext ==
    /\ fpc \in CloseAfter("context")
    /\ fpc' = "context_closed"
    /\ ctxOpen' = FALSE
    /\ contexts' = Close(contexts)
    /\ UNCHANGED << testNo, stepIdx, started, returned, pending, raisedErr,
                    errorLogged, shots, yielded, bodyRuns, bodyOutcome,
                    bodyInSession, logoutCalls, clicks, failedIn, session,
                    pageOpen, browserLaunches, pages >>
    /\ UNCHANGED << selVars, opVars >>

\* The next test gets a new context and a new page.
NextTest ==
    /\ fpc = "context_closed"
    /\ testNo < MaxTests
    /\ testNo' = testNo + 1
    /\ fpc' = "page_ready"
    /\ stepIdx' = 1
    /\ started' = << >>
    /\ returned' = << >>
    /\ pending' = NoError
    /\ raisedErr' = NoError
    /\ errorLogged' = FALSE
    /\ shots' = << >>
    /\ yielded' = FALSE
    /\ bodyRuns' = 0
    /\ bodyOutcome' = "none"
    /\ bodyInSession' = "none"
    /\ logoutCalls' = 0
    /\ clicks' = << >>
    /\ failedIn' = "none"
    /\ session' = "Anonymous"
    /\ pageOpen' = TRUE
    /\ ctxOpen' = TRUE
    /\ browserLaunches' = IF SetUpPerTest("browser") THEN browserLaunches + 1
                          ELSE browserLaunches
    /\ contexts' = IF SetUpPerTest("context")
                   THEN NewContext(contexts, testNo + 1) ELSE contexts
    /\ pages' = IF SetUpPerTest("page")
                THEN NewPage(pages,
                             IF SetUpPerTest("context")
                             THEN NewContext(contexts, testNo + 1)
                             ELSE contexts,
                             testNo + 1)
                ELSE pages
    /\ UNCHANGED << selVars, opVars >>

Next ==
    \/ BeginSetup
    \/ SetupStep
    \/ YieldPage
    \/ RunTestBody
    \/ LogoutStep
    \/ FailureHandler
    \/ ClosePage
    \/ CloseContext
    \/ NextTest

Spec == Init /\ [][Next]_vars

\* ------------------------------------------------------------------------
\* Properties of the authenticated_page fixture
\* ------------------------------------------------------------------------

IsPrefix(a, b) ==
    /\ Len(a) <= Len(b)
    /\ \A i \in 1..Len(a) : a[i] = b[i]

IsNamedStep(s) == s.op # "wait"

StepName(s) == << s.op, s.target >>

NamedSteps(seq) ==
    LET f == SelectSeq(seq, IsNamedStep) IN
    [i \in 1..Len(f) |-> StepName(f[i])]

AfterFixture == fpc \in {"raised", "fixture_done", "page_closed",
                         "context_closed"}

\* C1: the setup steps of authenticated_page run in the order navigate to
\* the login URL, fill email, fill password, click submit, verify the
\* DEFAULT company marker, verify the named-company marker, click the
\* default company link, verify the self-service identity marker; a step
\* starts only after the previous one returned without error, and the page
\* is yielded only after all of them succeeded.
C1_SetupOrderBeforeYield ==
    LET claimed == << << "navigate", "base_url" >>,
                      << "fill", "EMAIL_INPUT" >>,
                      << "fill", "PASSWORD_INPUT" >>,
                      << "click", "SUBMIT_BUTTON" >>,
                      << "verify_visible", "DEFAULT_COMPANY" >>,
                      << "verify_visible", "FLOUR_MILLS_COMPANY" >>,
                      << "click", "DEFAULT_LINK" >>,
                      << "verify_visible", "PERSONAL_NAME" >> >>
    IN
    /\ IsPrefix(NamedSteps(started), claimed)
    /\ IsPrefix(returned, started)
    /\ Len(started) <= Len(returned) + 1
    /\ (fpc = "setup" => started = returned)
    /\ (yielded \/ fpc = "yield" => NamedSteps(returned) = claimed)

C1_Witness == fpc = "body" /\ yielded /\ Len(returned) = Len(SetupSteps)

\* C2: when the setup succeeded, the logout flow is invoked exactly once at
\* teardown, its clicks are the profile menu and then the logout link, in
\* that order, and all of it happens before the page is closed.
C2_LogoutOnceBeforeClose ==
    /\ logoutCalls <= 1
    /\ IsPrefix(clicks, << "MM_PROFILE", "LOGOUT_LINK" >>)
    /\ (fpc = "teardown" => pageOpen /\ yielded /\ bodyRuns = 1)
    /\ (clicks # << >> => logoutCalls = 1 /\ yielded)
    /\ (yielded /\ AfterFixture => logoutCalls = 1 /\ Len(clicks) >= 1)
    /\ (yielded /\ AfterFixture /\ failedIn = "none"
            => clicks = << "MM_PROFILE", "LOGOUT_LINK" >>)
    /\ (~pageOpen /\ yielded => logoutCalls = 1)

C2_Witness ==
    /\ ~pageOpen
    /\ yielded
    /\ bodyOutcome = "failed"
    /\ logoutCalls = 1
    /\ clicks = << "MM_PROFILE", "LOGOUT_LINK" >>

\* C3: if a setup step raises, a screenshot capture is attempted, the error
\* is logged, the same exception is re-raised, the page is never yielded and
\* no logout click is performed.
C3_SetupFailureHandled ==
    /\ (failedIn = "setup" =>
            /\ ~yielded
            /\ bodyRuns = 0
            /\ bodyOutcome = "none"
            /\ logoutCalls = 0
            /\ clicks = << >>)
    /\ (failedIn = "setup" /\ AfterFixture =>
            /\ errorLogged
            /\ \E i \in 1..Len(shots) : shots[i].name = "auth_error"
            /\ raisedErr = DriverError(started[Len(started)].op,
                                       started[Len(started)].target))

C3_Witness ==
    /\ failedIn = "setup"
    /\ fpc = "page_closed"
    /\ shots[Len(shots)] = [name |-> "auth_error", saved |-> FALSE]

ClaimedEdges ==
    { << "Anonymous", "LoggingIn" >>,
      << "LoggingIn", "Authenticated" >>,
      << "LoggingIn", "Anonymous" >>,
      << "Authenticated", "LoggedOut" >>,
      << "LoggedOut", "Anonymous" >> }

BodyOnlyAuthenticated ==
    /\ (fpc = "body" => session = "Authenticated")
    /\ bodyInSession \in {"none", "Authenticated"}

EntersAuthenticatedProperly ==
    (session # "Authenticated" /\ session' = "Authenticated") =>
        /\ session = "LoggingIn"
        /\ returned' = SetupSteps

\* C4 as stated: the session state changes only along Anonymous ->
\* LoggingIn, LoggingIn -> Authenticated, LoggingIn -> Anonymous,
\* Authenticated -> LoggedOut, LoggedOut -> Anonymous; the body runs only
\* while Authenticated; Authenticated is entered only from LoggingIn after
\* all verifications passed.
C4_AsClaimed ==
    /\ [][session' # session => << session, session' >> \in ClaimedEdges]_vars
    /\ [][EntersAuthenticatedProperly]_vars
    /\ []BodyOnlyAuthenticated

\* C4 amended: the same, with the additional edge Authenticated -> Anonymous,
\* which is taken exactly when the logout flow raises during teardown.
C4_SessionEdges ==
    /\ [][session' # session =>
            \/ << session, session' >> \in ClaimedEdges
            \/ /\ << session, session' >> = << "Authenticated", "Anonymous" >>
               /\ failedIn = "teardown"]_vars
    /\ [][EntersAuthenticatedProperly]_vars
    /\ []BodyOnlyAuthenticated

C4_Witness ==
    /\ failedIn = "teardown"
    /\ fpc = "raised"
    /\ session = "Anonymous"
    /\ bodyInSession = "Authenticated"

\* ------------------------------------------------------------------------
\* BasePage.ant_select_option(dropdown_locator, option_text)
\* ------------------------------------------------------------------------

\* Option texts, as character sequences: "gt", "gtb", "GT".
Texts == { << "g", "t" >>, << "g", "t", "b" >>, << "G", "T" >> }

\* An option element: its accessible name, whether it is exposed with
\* role="option", and whether it is an .ant-select-item-option carrying a
\* title attribute (equal to its name).
OptionUniverse == [name : Texts, role : BOOLEAN, titled : BOOLEAN]

LowerChar(c) ==
    CASE c = "G" -> "g"
      [] c = "T" -> "t"
      [] c = "B" -> "b"
      [] OTHER -> c

Lower(t) == [i \in 1..Len(t) |-> LowerChar(t[i])]

IsSubstring(a, b) ==
    \E k \in 0..(Len(b) - Len(a)) :
        \A i \in 1..Len(a) : b[k + i] = a[i]

\* get_by_role("option", name=option_text): called without exact=True, the
\* driver matches the accessible name case-insensitively and by substring.
RoleNameMatch_exact(name, text) == name = text

RoleNameMatch(name, text) == IsSubstring(Lower(text), Lower(name))

\* Elements the primary locator resolves to.
RoleMatches(os, text) ==
    { o \in os : o.role /\ RoleNameMatch(o.name, text) }

\* Elements the fallback locator .ant-select-item-option[title='<text>']
\* resolves to: the attribute selector compares the whole value.
TitleMatches(os, text) ==
    { o \in os : o.titled /\ o.name = text }

\* locator.wait_for(state=...) on an element observed absent, hidden or
\* visible at the end of the timeout.
WaitFor(state, observed) ==
    CASE state = "hidden" ->
            IF observed \in {"absent", "hidden"} THEN "ok" ELSE "timeout"
      [] state = "visible" ->
            IF observed = "visible" THEN "ok" ELSE "timeout"
      [] state = "attached" ->
            IF observed # "absent" THEN "ok" ELSE "timeout"
      [] OTHER ->
            IF observed = "absent" THEN "ok" ELSE "timeout"

\* Outcomes the wait for an option can have: the locator is strict, so
\* several matches raise; no match times out; one match is visible in time
\* or not.
OptionWaitOutcomes(matches) ==
    IF Cardinality(matches) = 0 THEN {"timeout"}
    ELSE IF Cardinality(matches) > 1 THEN {"strict"}
    ELSE {"ok", "timeout"}

\* Exception a failing driver call of ant_select_option raises.
SelectError(outcome, call) ==
    [type |-> IF outcome = "strict" THEN "Error" ELSE "TimeoutError",
     at |-> call]

\* What the message of a driver exception names: the selector of the
\* locator the failing call was made on.
ErrorNames(call) ==
    CASE call = "click_trigger" -> {"dropdown_locator"}
      [] call \in {"wait_option_title", "click_option_title"} ->
            {"panel_selector", "option_text"}
      [] call \in {"wait_option_role", "click_option_role"} ->
            {"option_text"}
      [] OTHER -> {"panel_selector"}

\* State the loading indicator is awaited in.
LoadingWaitState_visible == "visible"

LoadingWaitState == "hidden"

\* Step 1 is wrapped in try / bare except: both outcomes go on to step 2.
AfterLoadingWait_strict(outcome) ==
    IF outcome = "ok" THEN "s2_click_trigger" ELSE "raised"

AfterLoadingWait(outcome) == "s2_click_trigger"

\* Step 2 is not guarded.
AfterTriggerClick_noPanelWait(ok) ==
    IF ok THEN "s4_wait_option" ELSE "raised"

AfterTriggerClick(ok) == IF ok THEN "s3_wait_panel" ELSE "raised"

\* Step 3 is not guarded.
AfterPanelWait_swallowed(ok) == "s4_wait_option"

AfterPanelWait(ok) == IF ok THEN "s4_wait_option" ELSE "raised"

\* Step 4: any exception of the primary strategy leads to the fallback; the
\* last call of the try block is followed by `return`.
AfterPrimaryCall_noReturn(ok, next) ==
    IF ok /\ next # "returned" THEN next ELSE "s5_wait_option"

AfterPrimaryCall(ok, next) == IF ok THEN next ELSE "s5_wait_option"

\* Step 5 is not guarded.
AfterFallbackCall_swallowed(ok, next) == IF ok THEN next ELSE "returned"

AfterFallbackCall(ok, next) == IF ok THEN next ELSE "raised"

\* Timeout the browser context applies to a call without timeout argument:
\* the context fixture calls context.set_default_timeout(settings.timeout).
SettingsTimeout == 30000

ContextDefaultTimeout_unset(configured) == 0 * configured

ContextDefaultTimeout(configured) == configured

\* A call gives up after a finite time; the driver reads a timeout of 0 as
\* no timeout.
Bounded(t) ==
    CASE t = "none" -> FALSE
      [] t = "context" -> ContextDefaultTimeout(SettingsTimeout) > 0
      [] OTHER -> TRUE

\* A call that is not bounded may never come back.
HangOutcomes(s) == IF Bounded(s.t) THEN {} ELSE {"hang"}

\* Outcomes of a click made without timeout argument (trigger click and
\* option clicks of ant_select_option).
ClickOutcomes == {"ok", "error"} \cup HangOutcomes([t |-> "context"])

\* A click that never comes back leaves the method hanging.
AfterClick(out, next) == IF out = "hang" THEN "hung" ELSE next

\* The page the test body is on when it calls ant_select_option.
BodyRunning ==
    /\ testNo = 1
    /\ fpc = "body"
    /\ stepIdx = Len(SetupSteps)
    /\ started = SetupSteps
    /\ returned = SetupSteps
    /\ pending = NoError
    /\ raisedErr = NoError
    /\ errorLogged = FALSE
    /\ shots = << >>
    /\ yielded = TRUE
    /\ bodyRuns = 0
    /\ bodyOutcome = "none"
    /\ bodyInSession = "none"
    /\ logoutCalls = 0
    /\ clicks = << >>
    /\ failedIn = "none"
    /\ session = "Authenticated"
    /\ pageOpen = TRUE
    /\ ctxOpen = TRUE
    /\ FirstTestCreated

\* A call of ant_select_option: the requested text, the option elements of
\* the page and the state of the loading indicator are the inputs.
InitSelect ==
    /\ BodyRunning
    /\ OpsIdle
    /\ spc = "s1_wait_loading"
    /\ optionText \in Texts
    /\ opts \in { os \in SUBSET OptionUniverse : Cardinality(os) <= MaxOptions }
    /\ indicator \in {"absent", "hidden", "visible"}
    /\ step1 = "none"
    /\ events = << >>
    /\ triggerClicks = 0
    /\ clicked = << >>
    /\ via = "none"
    /\ primaryRaised = FALSE
    /\ panelSeen = FALSE
    /\ panelWaitFailed = FALSE
    /\ closedSeen = FALSE
    /\ selErr = NoError

\* 1: wait for .ant-select-loading to be hidden (timeout 15 s).
S1_WaitLoading ==
    /\ spc = "s1_wait_loading"
    /\ LET outcome == WaitFor(LoadingWaitState, indicator) IN
        /\ step1' = outcome
        /\ spc' = AfterLoadingWait(outcome)
    /\ events' = Append(events, "wait_loading")
    /\ UNCHANGED << optionText, opts, indicator, triggerClicks, clicked, via,
                    primaryRaised, panelSeen, panelWaitFailed, closedSeen,
                    selErr >>
    /\ UNCHANGED << authVars, opVars >>

\* 2: click the dropdown trigger.
S2_ClickTrigger ==
    /\ spc = "s2_click_trigger"
    /\ \E out \in ClickOutcomes :
        /\ spc' = AfterClick(out, AfterTriggerClick(out = "ok"))
        /\ selErr' = IF out = "error"
                     THEN SelectError("timeout", "click_trigger")
                     ELSE selErr
    /\ triggerClicks' = triggerClicks + 1
    /\ events' = Append(events, "click_trigger")
    /\ UNCHANGED << optionText, opts, indicator, step1, clicked, via,
                    primaryRaised, panelSeen, panelWaitFailed, closedSeen >>
    /\ UNCHANGED << authVars, opVars >>

\* 3: wait for the panel that is not .ant-select-dropdown-hidden to be
\* visible (timeout 10 s).
S3_WaitPanel ==
    /\ spc = "s3_wait_panel"
    /\ \E observed \in {"absent", "hidden", "visible"} :
        LET ok == WaitFor("visible", observed) = "ok" IN
        /\ spc' = AfterPanelWait(ok)
        /\ panelSeen' = ok
        /\ panelWaitFailed' = ~ok
        /\ selErr' = IF ok THEN selErr
                     ELSE SelectError("timeout", "wait_panel_visible")
    /\ events' = Append(events, "wait_panel_visible")
    /\ UNCHANGED << optionText, opts, indicator, step1, triggerClicks,
                    clicked, via, primaryRaised, closedSeen >>
    /\ UNCHANGED << authVars, opVars >>

\* 4a: get_by_role("option", name=option_text).wait_for(visible, 5 s).
S4_WaitOption ==
    /\ spc = "s4_wait_option"
    /\ \E outcome \in OptionWaitOutcomes(RoleMatches(opts, optionText)) :
        /\ spc' = AfterPrimaryCall(outcome = "ok", "s4_click_option")
        /\ primaryRaised' = (outcome # "ok")
    /\ events' = Append(events, "wait_option_role")
    /\ UNCHANGED << optionText, opts, indicator, step1, triggerClicks,
                    clicked, via, panelSeen, panelWaitFailed, closedSeen,
                    selErr >>
    /\ UNCHANGED << authVars, opVars >>

\* 4b: option.click().
S4_ClickOption ==
    /\ spc = "s4_click_option"
    /\ \E out \in ClickOutcomes :
        LET ok == out = "ok" IN
        /\ spc' = AfterClick(out, AfterPrimaryCall(ok, "s4_wait_close"))
        /\ primaryRaised' = (out = "error")
        /\ clicked' = IF ok
                      THEN Append(clicked,
                             CHOOSE o \in RoleMatches(opts, optionText) : TRUE)
                      ELSE clicked
    /\ events' = Append(events, "click_option_role")
    /\ closedSeen' = FALSE
    /\ UNCHANGED << optionText, opts, indicator, step1, triggerClicks, via,
                    panelSeen, panelWaitFailed, selErr >>
    /\ UNCHANGED << authVars, opVars >>

\* 4c: dropdown.wait_for(hidden, 5 s); return.
S4_WaitClose ==
    /\ spc = "s4_wait_close"
    /\ \E observed \in {"absent", "hidden", "visible"} :
        LET ok == WaitFor("hidden", observed) = "ok" IN
        /\ spc' = AfterPrimaryCall(ok, "returned")
        /\ primaryRaised' = ~ok
        /\ closedSeen' = ok
        /\ via' = IF AfterPrimaryCall(ok, "returned") = "returned"
                  THEN "primary" ELSE via
    /\ events' = Append(events, "wait_panel_hidden")
    /\ UNCHANGED << optionText, opts, indicator, step1, triggerClicks,
                    clicked, panelSeen, panelWaitFailed, selErr >>
    /\ UNCHANGED << authVars, opVars >>

\* 5a: dropdown.locator(".ant-select-item-option[title='<text>']")
\*     .wait_for(visible, 5 s).
S5_WaitOption ==
    /\ spc = "s5_wait_option"
    /\ \E outcome \in OptionWaitOutcomes(TitleMatches(opts, optionText)) :
        /\ spc' = AfterFallbackCall(outcome = "ok", "s5_click_option")
        /\ selErr' = IF outcome = "ok" THEN selErr
                     ELSE SelectError(outcome, "wait_option_title")
    /\ events' = Append(events, "wait_option_title")
    /\ UNCHANGED << optionText, opts, indicator, step1, triggerClicks,
                    clicked, via, primaryRaised, panelSeen, panelWaitFailed,
                    closedSeen >>
    /\ UNCHANGED << authVars, opVars >>

\* 5b: option.click().
S5_ClickOption ==
    /\ spc = "s5_click_option"
    /\ \E out \in ClickOutcomes :
        LET ok == out = "ok" IN
        /\ spc' = AfterClick(out, AfterFallbackCall(ok, "s5_wait_close"))
        /\ selErr' = IF out = "error"
                     THEN SelectError("timeout", "click_option_title")
                     ELSE selErr
        /\ clicked' = IF ok
                      THEN Append(clicked,
                             CHOOSE o \in TitleMatches(opts, optionText) : TRUE)
                      ELSE clicked
    /\ events' = Append(events, "click_option_title")
    /\ closedSeen' = FALSE
    /\ UNCHANGED << optionText, opts, indicator, step1, triggerClicks, via,
                    primaryRaised, panelSeen, panelWaitFailed >>
    /\ UNCHANGED << authVars, opVars >>

\* 5c: dropdown.wait_for(hidden, 5 s); the function ends.
S5_WaitClose ==
    /\ spc = "s5_wait_close"
    /\ \E observed \in {"absent", "hidden", "visible"} :
        LET ok == WaitFor("hidden", observed) = "ok" IN
        /\ spc' = AfterFallbackCall(ok, "returned")
        /\ closedSeen' = ok
        /\ selErr' = IF ok THEN selErr
                     ELSE SelectError("timeout", "wait_panel_hidden")
        /\ via' = IF ok THEN "fallback" ELSE via
    /\ events' = Append(events, "wait_panel_hidden")
    /\ UNCHANGED << optionText, opts, indicator, step1, triggerClicks,
                    clicked, primaryRaised, panelSeen, panelWaitFailed >>
    /\ UNCHANGED << authVars, opVars >>

NextSelect ==
    \/ S1_WaitLoading
    \/ S2_ClickTrigger
    \/ S3_WaitPanel
    \/ S4_WaitOption
    \/ S4_ClickOption
    \/ S4_WaitClose
    \/ S5_WaitOption
    \/ S5_ClickOption
    \/ S5_WaitClose

SpecSelect == InitSelect /\ [][NextSelect]_vars

\* ------------------------------------------------------------------------
\* Properties of ant_select_option
\* ------------------------------------------------------------------------

PrimaryCalls == {"wait_option_role", "click_option_role"}

FallbackCalls == {"wait_option_title", "click_option_title"}

OptionClickCalls == {"click_option_role", "click_option_title"}

Finished == spc \in {"returned", "raised"}

InFallback == spc \in {"s5_wait_option", "s5_click_option", "s5_wait_close"}

FallbackFailed ==
    /\ primaryRaised
    /\ selErr.at \in FallbackCalls \cup {"wait_panel_hidden"}

\* C5 as stated: whenever ant_select_option returns normally, by either
\* path, every option that was clicked is the option whose display name /
\* title equals the requested text, and the panel was observed hidden after
\* the click.
C5_AsClaimed ==
    spc = "returned" =>
        /\ clicked # << >>
        /\ \A i \in 1..Len(clicked) : clicked[i].name = optionText
        /\ closedSeen

\* C6: the fallback strategy is entered only if the primary strategy
\* raised; a primary strategy whose calls all succeed returns without any
\* fallback call.
C6_FallbackOnlyAfterPrimaryRaised ==
    /\ (InFallback \/ \E i \in 1..Len(events) : events[i] \in FallbackCalls)
            => primaryRaised
    /\ (via = "primary" =>
            /\ spc = "returned"
            /\ ~primaryRaised
            /\ \A i \in 1..Len(events) : events[i] \notin FallbackCalls)
    /\ (Len(events) = 6 /\ ~primaryRaised =>
            /\ spc = "returned"
            /\ via = "primary")

C6_Witness ==
    /\ spc = "returned"
    /\ via = "primary"
    /\ Len(events) = 6
    /\ events[6] = "wait_panel_hidden"

\* C7: the calls are made in the order loading-indicator wait, trigger
\* click, panel-visible wait, option selection, panel-hidden wait; the
\* trigger is clicked exactly once per invocation, and no option is clicked
\* unless the panel was observed visible after the trigger click.
C7_StepOrder ==
    /\ IsPrefix(SubSeq(events, 1, IF Len(events) < 3 THEN Len(events) ELSE 3),
                << "wait_loading", "click_trigger", "wait_panel_visible" >>)
    /\ \A i \in 4..Len(events) :
        /\ events[i] \in PrimaryCalls \cup FallbackCalls
                         \cup {"wait_panel_hidden"}
        /\ (events[i] = "wait_panel_hidden"
                => events[i - 1] \in OptionClickCalls)
        /\ (events[i] = "click_option_role"
                => events[i - 1] = "wait_option_role")
        /\ (events[i] = "click_option_title"
                => events[i - 1] = "wait_option_title")
    /\ triggerClicks =
            Cardinality({i \in 1..Len(events) : events[i] = "click_trigger"})
    /\ triggerClicks <= 1
    /\ (Finished => triggerClicks = 1)
    /\ ((clicked # << >> \/ \E i \in 1..Len(events) :
                                events[i] \in OptionClickCalls)
            => panelSeen /\ Len(events) > 3
               /\ events[3] = "wait_panel_visible")
    /\ (spc = "returned" =>
            /\ events[Len(events)] = "wait_panel_hidden"
            /\ clicked # << >>)

C7_Witness ==
    /\ spc = "returned"
    /\ via = "fallback"
    /\ triggerClicks = 1
    /\ Len(clicked) = 1

C10_AbsentIndicatorProceeds ==
    indicator = "absent" =>
        /\ (Len(events) >= 1 => events[1] = "wait_loading" /\ step1 = "ok")
        /\ (Len(events) = 1 => spc = "s2_click_trigger" /\ selErr = NoError)
        /\ (Len(events) >= 2 => events[2] = "click_trigger")
        /\ selErr.at # "wait_loading"

C10_Witness ==
    /\ indicator = "absent"
    /\ step1 = "ok"
    /\ triggerClicks = 1

\* ------------------------------------------------------------------------
\* Page-object methods as sequences of driver calls
\* ------------------------------------------------------------------------

\* longest value typed into a field by fill_input
MaxLen == 3
\* number of calls of the same check the test makes on an unchanged page
MaxCalls == 2

\* A driver call made inside method m: the call, the selector it is made
\* on, its argument (a string, as a sequence of characters), a length where
\* the call takes one, and where its timeout comes from:
\*   "explicit"  a positive timeout= argument written in the code,
\*   "context"   no argument: the default timeout of the browser context,
\*   "expect"    no argument: the default timeout of expect(),
\*   "duration"  the call sleeps for the given time,
\*   "instant"   the call does not wait,
\*   "none"      the call waits and takes no timeout.
Step(m, call, on, arg, n, t) ==
    [m |-> m, call |-> call, on |-> on, arg |-> arg, n |-> n, t |-> t]

\* BasePage.click_element: the calls of the try block, in program order.
ClickElementCalls_enabledUnchecked ==
    << "log_element_state", "wait_attached", "wait_visible",
       "scroll_into_view", "click", "expect_enabled" >>

ClickElementCalls ==
    << "log_element_state", "wait_attached", "wait_visible",
       "scroll_into_view", "expect_enabled", "click" >>

click_element(selector) ==
    [i \in 1..Len(ClickElementCalls) |->
        Step("click_element", ClickElementCalls[i], selector, << >>, 0,
             IF ClickElementCalls[i] = "log_element_state" THEN "context"
             ELSE "explicit")]

\* BasePage.fill_input: the calls of the try block, in program order.
FillInputCalls_unverified ==
    << "log_element_state", "wait_visible", "scroll_into_view", "fill" >>

FillInputCalls ==
    << "log_element_state", "wait_visible", "scroll_into_view", "fill",
       "expect_value" >>

fill_input(selector, value) ==
    [i \in 1..Len(FillInputCalls) |->
        Step("fill_input", FillInputCalls[i], selector,
             IF FillInputCalls[i] \in {"fill", "expect_value"}
             THEN value ELSE << >>,
             0,
             IF FillInputCalls[i] \in {"log_element_state", "fill"}
             THEN "context" ELSE "explicit")]

\* A method that makes one driver call and has no try/except.
Single(m, call, on, arg, t) == << Step(m, call, on, arg, 0, t) >>

\* BasePage.navigate_to: page.goto inside try/except.
navigate_to(url) == Single("navigate_to", "goto", url, << >>, "context")

\* BasePage.verify_element_visible: expect(...).to_be_visible(timeout=None)
\* inside try/except.
verify_element_visible(selector) ==
    Single("verify_element_visible", "expect_visible", selector, << >>,
           "expect")

\* BasePage.verify_input_value_length: to_be_visible, then to_have_value
\* with the pattern ^.{n}$.
verify_input_value_length_visibleOnly(selector, n) ==
    << Step("verify_input_value_length", "expect_visible", selector, << >>,
            n, "expect") >>

verify_input_value_length(selector, n) ==
    << Step("verify_input_value_length", "expect_visible", selector, << >>,
            0, "expect"),
       Step("verify_input_value_length", "expect_length", selector, << >>,
            n, "expect") >>

\* BasePage.verify_element_has_value: to_have_value(expected_value).
verify_element_has_value(selector, value) ==
    Single("verify_element_has_value", "expect_value", selector, value,
           "expect")

\* BasePage.clear_input: page.fill(selector, "").
clear_input(selector) ==
    Single("clear_input", "fill", selector, << >>, "context")

\* The driver call of each BasePage method that consists of one call.
SingleCall(m) ==
    CASE m = "type_text" -> "type"
      [] m = "check_checkbox" -> "check"
      [] m = "uncheck_checkbox" -> "uncheck"
      [] m = "select_dropdown_option" -> "select_option"
      [] m = "upload_file" -> "set_input_files"
      [] m = "hover_element" -> "hover"
      [] m = "press_key" -> "press"
      [] m = "wait_for_selector" -> "wait_for_selector"
      [] m = "wait_for_url" -> "wait_for_url"
      [] m = "wait_for_load_state" -> "wait_for_load_state"
      [] m = "wait" -> "wait_for_timeout"
      [] m = "evaluate" -> "evaluate"
      [] OTHER -> "none"

\* Where the timeout of that call comes from: the waits are called with
\* timeout=None or without timeout, page.wait_for_timeout sleeps, and
\* page.evaluate takes no timeout.
SingleTimeout(m) ==
    CASE m = "wait" -> "duration"
      [] m = "evaluate" -> "none"
      [] OTHER -> "context"

\* SelfServicePage.click_to_edit_personal_data_details: the driver calls of
\* its try block, made on the page and on the edit link.
click_to_edit_personal_data_details ==
    LET m == "click_to_edit_personal_data_details" IN
    << Step(m, "wait_for_load_state", "PAGE", << >>, 0, "context"),
       Step(m, "wait_visible", "EDIT_LINK", << >>, 0, "explicit"),
       Step(m, "scroll_into_view", "EDIT_LINK", << >>, 0, "context"),
       Step(m, "expect_enabled", "EDIT_LINK", << >>, 0, "explicit"),
       Step(m, "click", "EDIT_LINK", << >>, 0, "context"),
       Step(m, "wait_for_load_state", "PAGE", << >>, 0, "context") >>

\* SelfServicePage.click_to_add_banking_details (inside try/except) and
\* click_to_edit_bank_details (without): wait for the load state, open the
\* bank details, click the button.
click_to_bank_details(m, button) ==
    << Step(m, "wait_for_load_state", "PAGE", << >>, 0, "context") >>
    \o click_element("CLICK_BANK_DETAIL")
    \o click_element(button)

\* SelfServicePage.click_to_logout: the two clicks of LogoutSteps.
click_to_logout ==
    click_element(LogoutSteps[1]) \o click_element(LogoutSteps[2])

\* BasePage.click_and_verify_download: the validations made after the
\* download was saved, in program order.
DownloadChecks_existsOnly == << "assert_exists" >>

DownloadChecks == << "assert_exists", "assert_extension" >>

\* BasePage.click_and_verify_download: click inside page.expect_download(),
\* the wait for the download at the end of the with block, save_as, path,
\* and the two assert statements.
click_and_verify_download(selector, save_path) ==
    LET m == "click_and_verify_download" IN
    click_element(selector)
    \o << Step(m, "expect_download", "PAGE", << >>, 0, "context"),
          Step(m, "save_as", save_path, << >>, 0, "none"),
          Step(m, "path", "DOWNLOAD", << >>, 0, "none") >>
    \o [i \in 1..Len(DownloadChecks) |->
            Step(m, DownloadChecks[i], "DOWNLOAD", << >>, 0, "instant")]

\* settings.bank_id and settings.sort_code as the code defines them.
DefaultBankId == << "U", "N", "A", "F", "N", "G", "L", "A", "2", "2", "8" >>

DefaultSortCode == << "0", "3", "3" >>

\* Length the bank-id field must have in both bank flows.
ExpectedBankIdLength == 10

\* `value or default`: an argument that is None or empty gives the default.
OrDefault(value, default) == IF value = << >> THEN default ELSE value

\* A call of ant_select_option inside a flow, seen as one step.
ant_select_option(dropdown, text) ==
    Single("ant_select_option", "select", dropdown, << >>, "explicit")

\* AddBankDetailsPage.create_new_bank_details(bank_id=bank_id): the sort
\* code is left to its default.
create_new_bank_details(bank_id) ==
    ant_select_option("BANK_NAME_DROPDOWN", "BANK_NAME")
    \o fill_input("BANK_ID", OrDefault(bank_id, DefaultBankId))
    \o verify_input_value_length("BANK_ID", ExpectedBankIdLength)
    \o verify_element_has_value("BANK_ID", OrDefault(bank_id, DefaultBankId))
    \o fill_input("SORT_CODE", DefaultSortCode)
    \o verify_element_has_value("SORT_CODE", DefaultSortCode)
    \o click_element("ADD_BANK_BUTTON")

\* EditBankDetailsPage.edit_bank_details(bank_id=bank_id).
edit_bank_details(bank_id) ==
    clear_input("BANK_ID")
    \o clear_input("SORT_CODE")
    \o ant_select_option("BANK_NAME_DROPDOWN", "BANK_NAME")
    \o fill_input("BANK_ID", OrDefault(bank_id, DefaultBankId))
    \o verify_input_value_length("BANK_ID", ExpectedBankIdLength)
    \o fill_input("SORT_CODE", DefaultSortCode)
    \o click_element("EDIT_SUBMIT_BUTTON")

\* HOME_PAGE.TITLE.
HomePageTitle ==
    << "C", "A", "n", "d", "I", "L", "e", "a", "s", "i", "n", "g" >>

\* BasePage.verify_title: expect(page).to_have_title(expected).
verify_title(expected) ==
    Single("verify_title", "expect_title", "page", expected, "expect")

\* BasePage.verify_element_is_disabled: wait for the element to be attached
\* (10 s when no timeout is passed), then expect(locator).to_be_disabled().
verify_element_is_disabled_scrolling(selector) ==
    << Step("verify_element_is_disabled", "wait_attached", selector, << >>,
            0, "explicit"),
       Step("verify_element_is_disabled", "scroll_into_view", selector,
            << >>, 0, "explicit"),
       Step("verify_element_is_disabled", "expect_disabled", selector, << >>,
            0, "expect") >>

verify_element_is_disabled(selector) ==
    << Step("verify_element_is_disabled", "wait_attached", selector, << >>,
            0, "explicit"),
       Step("verify_element_is_disabled", "expect_disabled", selector, << >>,
            0, "expect") >>

\* HomePage.verify_home_page_loads.
verify_home_page_loads ==
    verify_title(HomePageTitle)
    \o verify_element_is_disabled("PASSWORD_DISABLED")

\* The driver calls of method o called with input in, in program order.
Program(o, in) ==
    CASE o = "click_element" -> click_element("ELEMENT")
      [] o = "fill_input" -> fill_input("INPUT", in.value)
      [] o = "navigate_to" -> navigate_to("URL")
      [] o = "verify_element_visible" -> verify_element_visible("ELEMENT")
      [] o = "clear_input" -> clear_input("INPUT")
      [] o = "create_new_bank_details" -> create_new_bank_details(in.value)
      [] o = "edit_bank_details" -> edit_bank_details(in.value)
      [] o = "click_and_verify_download" ->
            click_and_verify_download("ELEMENT", "save_path")
      [] o = "click_default_company_link" -> click_element("DEFAULT_LINK")
      [] o = "click_to_logout" -> click_to_logout
      [] o = "verify_home_page_loads" -> verify_home_page_loads
      [] o = "click_to_edit_personal_data_details" ->
            click_to_edit_personal_data_details
      [] o = "click_to_add_banking_details" ->
            click_to_bank_details(o, "ADD_NEW_BANK_DETAIL_BUTTON")
      [] o = "click_to_edit_bank_details" ->
            click_to_bank_details(o, "EDIT_BANK_BUTTON")
      [] OTHER -> Single(o, SingleCall(o), "ELEMENT", << >>,
                         SingleTimeout(o))

\* What a field holds after a value was typed into it: a field that takes
\* at most `limit` characters keeps the first `limit` ones.
Store(value, limit) ==
    SubSeq(value, 1, IF Len(value) < limit THEN Len(value) ELSE limit)

\* str.endswith(suffix).
EndsWith(str, suffix) ==
    /\ Len(suffix) <= Len(str)
    /\ SubSeq(str, Len(str) - Len(suffix) + 1, Len(str)) = suffix

\* str.endswith(tuple of suffixes).
EndsWithAny(str, suffixes) == \E x \in suffixes : EndsWith(str, x)

\* expect(locator).to_have_value(expected) with a string: the whole value
\* is compared.
ToHaveValue(actual, expected) == actual = expected

\* expect(page).to_have_title(expected) with a string: the whole title is
\* compared.
ToHaveTitle(actual, expected) == actual = expected

\* Outcomes a driver call can have on the page it meets.
Outcomes(s, in, fv) ==
    CASE s.call = "wait_attached" ->
            IF in.attached THEN {"ok"} ELSE {"error"}
      [] s.call \in {"wait_visible", "expect_visible"} ->
            IF in.visible THEN {"ok"} ELSE {"error"}
      [] s.call = "scroll_into_view" ->
            IF in.attached THEN {"ok", "error"} ELSE {"error"}
      [] s.call = "expect_enabled" ->
            IF in.attached /\ in.enabled THEN {"ok"} ELSE {"error"}
      [] s.call = "expect_disabled" ->
            IF in.attached /\ ~in.enabled THEN {"ok"} ELSE {"error"}
      [] s.call = "expect_title" ->
            IF ToHaveTitle(in.title, s.arg) THEN {"ok"} ELSE {"error"}
      [] s.call \in {"click", "fill"} ->
            IF in.visible /\ in.enabled THEN {"ok", "error"} ELSE {"error"}
      [] s.call = "expect_value" ->
            IF ToHaveValue(fv[s.on], s.arg) THEN {"ok"} ELSE {"error"}
      [] s.call = "expect_length" ->
            IF Len(fv[s.on]) = s.n THEN {"ok"} ELSE {"error"}
      [] s.call = "wait_for_timeout" -> {"ok"}
      [] s.call = "assert_exists" ->
            IF in.exists THEN {"ok"} ELSE {"error"}
      [] s.call = "assert_extension" ->
            IF EndsWithAny(in.file, in.allowed) THEN {"ok"} ELSE {"error"}
      [] OTHER -> {"ok", "error"}

\* Values of the fields after call s returned.
FieldAfter(s, in, fv) ==
    IF s.call = "fill" THEN [fv EXCEPT ![s.on] = Store(s.arg, in.limit)]
    ELSE fv

\* Exception a failing driver call raises: expect() raises AssertionError,
\* the other calls raise the driver's own error.
OpError(s) ==
    [type |-> IF s.call \in {"expect_visible", "expect_enabled",
                             "expect_value", "expect_length",
                             "expect_disabled", "expect_title",
                             "assert_exists", "assert_extension"}
              THEN "AssertionError" ELSE "DriverError",
     at |-> << s.m, s.call, s.on >>]

\* What the message of a failing assert statement of
\* click_and_verify_download names.
AssertMessage(call) ==
    CASE call = "assert_exists" -> {"actual_path"}
      [] call = "assert_extension" -> {"filename", "expected_extensions"}
      [] OTHER -> {}

\* Where a download is saved after call s returned.
SavedAfter(s, saved) == IF s.call = "save_as" THEN s.on ELSE saved

\* _log_element_state wraps its driver calls in try/except and only logs.
Catches_navigation(s) == s.call \in {"log_element_state", "goto"}

Catches(s) == s.call = "log_element_state"

\* Name under which the except clause of BasePage method m calls
\* _take_screenshot; "none" for a method without try/except.
ExceptScreenshot(m) ==
    CASE m = "navigate_to" -> "navigation_error"
      [] m = "click_element" -> "click_error"
      [] m = "fill_input" -> "fill_error"
      [] m = "verify_element_visible" -> "verify_visible_error"
      [] m = "verify_has_text_visible" -> "verify_text_error"
      [] OTHER -> "none"

\* Path the except clause of SelfServicePage flow o passes to
\* self.screenshot; "none" for a method without try/except.
FlowScreenshot(o) ==
    CASE o = "click_to_edit_personal_data_details" ->
            "error_click_edit_link.png"
      [] o = "click_to_add_banking_details" ->
            "error_add_bank_detail_link.png"
      [] OTHER -> "none"

\* File _take_screenshot(name) writes: screenshots/{name}_{timestamp}.png,
\* the timestamp being int(time.time()).
TakeScreenshotFile(name) ==
    [dir |-> "screenshots", file |-> << name, "_", "timestamp", ".png" >>]

\* File BasePage.screenshot(path) writes: the path as it was passed, which
\* for the SelfServicePage flows is a bare file name.
ScreenshotFile(path) == [dir |-> ".", file |-> << path >>]

\* The except clauses an exception raised inside method m, called by o,
\* passes on its way to the caller of o, innermost first. A BasePage clause
\* uses _take_screenshot, which guards the capture; a SelfServicePage clause
\* calls BasePage.screenshot, which does not.
ExceptClauses(o, m) ==
    (IF ExceptScreenshot(m) = "none" THEN << >>
     ELSE << [name |-> ExceptScreenshot(m), guarded |-> TRUE] >>)
    \o
    (IF FlowScreenshot(o) = "none" THEN << >>
     ELSE << [name |-> FlowScreenshot(o), guarded |-> FALSE] >>)

\* The exception and the screenshot attempts after the clauses cs ran, the
\* capture of clause i succeeding iff flags[i]: every clause ends with a bare
\* `raise`; a capture that raises outside a guard replaces the exception.
RECURSIVE Unwind(_, _, _, _)
Unwind(cs, flags, err, ss) ==
    IF cs = << >> THEN [err |-> err, shots |-> ss]
    ELSE Unwind(Tail(cs), Tail(flags),
                IF Head(flags) \/ Head(cs).guarded THEN err
                ELSE ScreenshotError,
                Append(ss, [name |-> Head(cs).name, saved |-> Head(flags)]))

\* Where the method goes after a driver call: the next call, the return,
\* or the way out through the except clauses.
AfterCall(s, out, last) ==
    IF out = "hang" THEN "hung"
    ELSE IF out = "error" /\ ~Catches(s) THEN "except"
    ELSE IF last THEN "returned" ELSE "run"

\* Class of the page object a page-transition method returns; "none" for
\* the other methods.
TargetPage(o) ==
    CASE o = "click_default_company_link" -> "SelfServicePage"
      [] o = "click_to_logout" -> "HomePage"
      [] o = "click_to_edit_personal_data_details" -> "EditSelfServicePage"
      [] o = "click_to_add_banking_details" -> "AddBankDetailsPage"
      [] o = "click_to_edit_bank_details" -> "EditBankDetailsPage"
      [] OTHER -> "none"

\* Class of the page object a method is called on.
ReceiverPage(o) ==
    CASE o = "click_default_company_link" -> "LoginPage"
      [] TargetPage(o) # "none" -> "SelfServicePage"
      [] o = "create_new_bank_details" -> "AddBankDetailsPage"
      [] o = "edit_bank_details" -> "EditBankDetailsPage"
      [] OTHER -> "BasePage"

\* The url attribute __init__ of a page class sets from the settings;
\* "none" for a class whose __init__ sets none.
PageUrl(class) ==
    CASE class \in {"LoginPage", "HomePage"} -> "base_url"
      [] class = "SelfServicePage" -> "self_service_url"
      [] class = "EditSelfServicePage" -> "edit_self_service_url"
      [] class = "AddBankDetailsPage" -> "add_bank_details_url"
      [] OTHER -> "none"

\* Class(page): BasePage.__init__ stores the page, the subclass its url.
NewPageObject(class, page) ==
    [class |-> class, page |-> page, url |-> PageUrl(class)]

\* Page objects that exist after method o returned: `return Target(self.page)`.
ObjectsAfterReturn_inPlace(o, os) ==
    IF TargetPage(o) = "none" THEN os
    ELSE << NewPageObject(TargetPage(o), os[1].page) >>

ObjectsAfterReturn(o, os) ==
    IF TargetPage(o) = "none" THEN os
    ELSE Append(os, NewPageObject(TargetPage(o), os[1].page))

\* Position in objs of the object the method returns, 0 when it returns no
\* page object.
ReturnedObject(o, os) == IF TargetPage(o) = "none" THEN 0 ELSE Len(os) + 1

\* State of the element a call is made on.
ElementStates ==
    { e \in [attached : BOOLEAN, visible : BOOLEAN, enabled : BOOLEAN] :
        (e.visible \/ e.enabled) => e.attached }

Chars == {"a", "b"}

\* Strings of at most n characters.
Strings(n) == UNION { [1..k -> Chars] : k \in 0..n }

\* File names a download can suggest: report.pdf, report.csv, report.exe,
\* report.PDF and pdf, shortened to one letter for the stem.
FileNames ==
    { << "r", ".", "p", "d", "f" >>, << "r", ".", "c", "s", "v" >>,
      << "r", ".", "e", "x", "e" >>, << "r", ".", "P", "D", "F" >>,
      << "p", "d", "f" >> }

Pdf == << ".", "p", "d", "f" >>

Csv == << ".", "c", "s", "v" >>

\* The value of expected_extensions when the caller gives none.
DefaultExtensions ==
    { << ".", "t", "x", "t" >>, Pdf, Csv, << ".", "x", "l", "s", "x" >> }

DownloadInput(e, file, exists, allowed) ==
    [attached |-> e.attached, visible |-> e.visible, enabled |-> e.enabled,
     value |-> << >>, limit |-> 0, file |-> file, exists |-> exists,
     allowed |-> allowed, title |-> << >>]

\* Bank ids a test passes: none, one of ten characters, one of nine.
BankIds ==
    { << >>,
      << "0", "1", "2", "3", "4", "5", "6", "7", "8", "9" >>,
      << "0", "1", "2", "3", "4", "5", "6", "7", "8" >> }

Input(e, value, limit) ==
    [attached |-> e.attached, visible |-> e.visible, enabled |-> e.enabled,
     value |-> value, limit |-> limit, file |-> << >>, exists |-> FALSE,
     allowed |-> {}, title |-> << >>]

\* Titles the page can have: the expected one, none, another one.
PageTitles == { HomePageTitle, << >>, << "L", "o", "g", "i", "n" >> }

TitledInput(e, title) == [Input(e, << >>, 0) EXCEPT !.title = title]

\* Arguments and page states method o is called with.
Inputs(o) ==
    CASE o = "click_element" ->
            { Input(e, << >>, 0) : e \in ElementStates }
      [] o = "fill_input" ->
            { Input(e, v, l) : e \in ElementStates, v \in Strings(MaxLen),
                               l \in 0..MaxLen }
      [] o \in {"create_new_bank_details", "edit_bank_details"} ->
            { Input(e, v, l) :
                e \in ElementStates, v \in BankIds,
                l \in {ExpectedBankIdLength, Len(DefaultBankId)} }
      [] o = "click_and_verify_download" ->
            { DownloadInput(e, f, x, a) :
                e \in ElementStates, f \in FileNames, x \in BOOLEAN,
                a \in { {Pdf, Csv}, DefaultExtensions } }
      [] o = "verify_home_page_loads" ->
            { TitledInput(e, t) : e \in ElementStates, t \in PageTitles }
      [] o \in {"navigate_to", "wait_for_url", "wait_for_load_state", "wait",
                "evaluate"} -> { NoInput }
      [] OTHER -> { Input(e, << >>, 0) : e \in ElementStates }

\* The interaction methods of BasePage (ant_select_option is followed call
\* by call in SpecSelect).
InteractionMethods ==
    {"navigate_to", "click_element", "fill_input", "type_text",
     "clear_input", "check_checkbox", "uncheck_checkbox",
     "select_dropdown_option", "upload_file", "hover_element", "press_key"}

\* The methods of BasePage a test can call.
BasePageMethods ==
    InteractionMethods \cup
    {"verify_element_visible", "wait_for_selector", "wait_for_url",
     "wait_for_load_state", "wait", "evaluate", "click_and_verify_download"}

\* The methods that lead to another page and return its page object.
TransitionMethods ==
    {"click_default_company_link", "click_to_logout",
     "click_to_edit_personal_data_details", "click_to_add_banking_details",
     "click_to_edit_bank_details"}

\* The flows that fill and submit the bank details.
BankFlows == {"create_new_bank_details", "edit_bank_details"}

\* The checks that only read the page.
Verifications == {"verify_home_page_loads", "verify_element_visible"}

Methods ==
    BasePageMethods \cup TransitionMethods \cup BankFlows \cup Verifications

\* The methods decorated with @log_method.
LogMethods ==
    {"navigate_to", "click_element", "fill_input", "type_text",
     "clear_input", "verify_element_visible", "verify_home_page_loads",
     "wait_for_selector", "wait_for_url", "click_and_verify_download",
     "click_to_logout", "click_to_edit_personal_data_details",
     "click_to_add_banking_details", "click_to_edit_bank_details",
     "create_new_bank_details", "edit_bank_details"}

\* log_method, before the call of the wrapped method: the ENTERING entry.
WrapperEntry(o) == IF o \in LogMethods THEN << "ENTERING" >> ELSE << >>

\* log_method, after the wrapped method ended: SUCCESS after a return,
\* FAILED in the except clause.
WrapperLog(log, o, outcome) ==
    IF o \notin LogMethods THEN log
    ELSE Append(log, IF outcome = "returned" THEN "SUCCESS" ELSE "FAILED")

\* log_method: `return result`.
WrapperReturn(result) == result

\* log_method: the bare `raise` of the except clause.
WrapperRaise_wrapped(err) == [type |-> "WrapperError", at |-> err.at]

WrapperRaise(err) == err

\* What the fields hold when the method is called.
InitialFields(o, in) ==
    IF o \in {"clear_input", "edit_bank_details"}
    THEN { [f \in Fields |-> v] : v \in Strings(MaxLen) }
    ELSE { [f \in Fields |-> << >>] }

\* The test body calls method opName of a page object.
InitCall ==
    /\ BodyRunning
    /\ SelectIdle
    /\ opName \in Methods
    /\ inp \in Inputs(opName)
    /\ opc = "run"
    /\ pcIdx = 1
    /\ opCalls = << >>
    /\ opOuts = << >>
    /\ opPending = NoError
    /\ opErr = NoError
    /\ opShots = << >>
    /\ fieldVal \in InitialFields(opName, inp)
    /\ savedAt = "none"
    /\ objs = << NewPageObject(ReceiverPage(opName), "page") >>
    /\ opResult = 0
    /\ results = << >>
    /\ opLog = WrapperEntry(opName)
    /\ funcOut = NotEnded

\* One driver call of the method runs to its end.
CallStep ==
    /\ opc = "run"
    /\ LET prog == Program(opName, inp)
           s == prog[pcIdx]
       IN
       \E out \in Outcomes(s, inp, fieldVal) \cup HangOutcomes(s) :
        /\ opCalls' = Append(opCalls, s)
        /\ opc' = AfterCall(s, out, pcIdx = Len(prog))
        /\ pcIdx' = IF AfterCall(s, out, pcIdx = Len(prog)) = "run"
                    THEN pcIdx + 1 ELSE pcIdx
        /\ fieldVal' = IF out = "ok" THEN FieldAfter(s, inp, fieldVal)
                       ELSE fieldVal
        /\ opOuts' = Append(opOuts, out)
        /\ opPending' = IF AfterCall(s, out, pcIdx = Len(prog)) = "except"
                        THEN OpError(s) ELSE opPending
        /\ objs' = IF AfterCall(s, out, pcIdx = Len(prog)) = "returned"
                   THEN ObjectsAfterReturn(opName, objs) ELSE objs
        /\ opResult' = IF AfterCall(s, out, pcIdx = Len(prog)) = "returned"
                       THEN WrapperReturn(ReturnedObject(opName, objs))
                       ELSE opResult
        /\ funcOut' = IF AfterCall(s, out, pcIdx = Len(prog)) = "returned"
                      THEN [outcome |-> "returned",
                            result |-> ReturnedObject(opName, objs),
                            err |-> NoError]
                      ELSE funcOut
        /\ opLog' = IF AfterCall(s, out, pcIdx = Len(prog)) = "returned"
                    THEN WrapperLog(opLog, opName, "returned") ELSE opLog
        /\ savedAt' = IF out = "ok" THEN SavedAfter(s, savedAt) ELSE savedAt
    /\ UNCHANGED << opName, inp, opErr, opShots, results >>
    /\ UNCHANGED << authVars, selVars >>

\* The exception leaves the method through its except clauses.
Propagate ==
    /\ opc = "except"
    /\ LET cs == ExceptClauses(opName, opCalls[Len(opCalls)].m) IN
       \E flags \in [1..Len(cs) -> BOOLEAN] :
        LET r == Unwind(cs, flags, opPending, opShots) IN
        /\ opErr' = WrapperRaise(r.err)
        /\ opShots' = r.shots
        /\ funcOut' = [outcome |-> "raised", result |-> 0, err |-> r.err]
    /\ opLog' = WrapperLog(opLog, opName, "raised")
    /\ opc' = "raised"
    /\ opPending' = NoError
    /\ UNCHANGED << opName, inp, pcIdx, opCalls, opOuts, fieldVal, savedAt,
                    objs, opResult, results >>
    /\ UNCHANGED << authVars, selVars >>

\* The test calls the same check again on the page as the first call left
\* it.
CallAgain ==
    /\ opName \in Verifications
    /\ opc \in {"returned", "raised"}
    /\ Len(results) + 1 < MaxCalls
    /\ results' = Append(results, [outcome |-> opc, err |-> opErr])
    /\ opc' = "run"
    /\ pcIdx' = 1
    /\ opCalls' = << >>
    /\ opOuts' = << >>
    /\ opErr' = NoError
    /\ opShots' = << >>
    /\ opLog' = WrapperEntry(opName)
    /\ funcOut' = NotEnded
    /\ UNCHANGED << opName, inp, opPending, fieldVal, savedAt, objs,
                    opResult >>
    /\ UNCHANGED << authVars, selVars >>

InitPage == InitCall \/ InitSelect

NextPage ==
    \/ CallStep
    \/ Propagate
    \/ CallAgain
    \/ S1_WaitLoading
    \/ S2_ClickTrigger
    \/ S3_WaitPanel
    \/ S4_WaitOption
    \/ S4_ClickOption
    \/ S4_WaitClose
    \/ S5_WaitOption
    \/ S5_ClickOption
    \/ S5_WaitClose

SpecPage == InitPage /\ [][NextPage]_vars

\* The interpreter runs a method to its end: a driver call that can come
\* back does come back.
SpecPageFair == SpecPage /\ WF_vars(NextPage)

\* ------------------------------------------------------------------------
\* Properties of the page-object methods
\* ------------------------------------------------------------------------

OpDone == opc \in {"returned", "raised"}

OpFailing == opc \in {"except", "raised"}

IsWork(s) == s.call # "log_element_state"

\* Names of the driver calls made so far, the diagnostic reads left out.
WorkCalls ==
    LET f == SelectSeq(opCalls, IsWork) IN [i \in 1..Len(f) |-> f[i].call]

LastCall == opCalls[Len(opCalls)]

\* C11: click_element clicks only after it waited, in this order, for the
\* element to be attached, to be visible, to be scrolled into view and to be
\* enabled; when one of these steps fails, no later step and no click is made
\* and the caller receives the error of that first failing step.
C11_ClickAfterWaits ==
    opName = "click_element" =>
        LET claimed == << "wait_attached", "wait_visible",
                          "scroll_into_view", "expect_enabled", "click" >>
        IN
        /\ IsPrefix(WorkCalls, claimed)
        /\ ((\E i \in 1..Len(WorkCalls) : WorkCalls[i] = "click")
                => inp.attached /\ inp.visible /\ inp.enabled)
        /\ (opc = "returned" => WorkCalls = claimed)
        /\ (OpFailing =>
                /\ (~inp.attached => LastCall.call = "wait_attached")
                /\ (inp.attached /\ ~inp.visible
                        => LastCall.call = "wait_visible")
                /\ (inp.visible /\ ~inp.enabled
                        => LastCall.call
                             \in {"scroll_into_view", "expect_enabled"})
                /\ (LastCall.call # "click"
                        => \A i \in 1..Len(WorkCalls) : WorkCalls[i] # "click"))
        /\ (opc = "except" => opPending = OpError(LastCall))
        /\ (opc = "raised" => opErr = OpError(LastCall))

C11_Witness ==
    /\ opName = "click_element"
    /\ opc = "raised"
    /\ inp.visible
    /\ opErr = [type |-> "AssertionError",
                at |-> << "click_element", "expect_enabled", "ELEMENT" >>]
    /\ WorkCalls = << "wait_attached", "wait_visible", "scroll_into_view",
                      "expect_enabled" >>

\* C12: fill_input returns normally only if, after the value was set, the
\* field holds exactly the supplied value; when the field truncates or
\* rejects the value, fill_input raises and does not return.
C12_FillVerified ==
    opName = "fill_input" =>
        /\ (opc = "returned" =>
                /\ fieldVal["INPUT"] = inp.value
                /\ \E i \in 1..Len(opCalls) : opCalls[i].call = "fill")
        /\ (OpDone /\ Store(inp.value, inp.limit) # inp.value =>
                /\ opc = "raised"
                /\ opErr # NoError
                /\ (fieldVal["INPUT"] # << >> =>
                        opErr = [type |-> "AssertionError",
                                 at |-> << "fill_input", "expect_value",
                                           "INPUT" >>]))

C12_Witness ==
    /\ opName = "fill_input"
    /\ opc = "raised"
    /\ Len(inp.value) = MaxLen
    /\ Len(fieldVal["INPUT"]) = MaxLen - 1
    /\ opErr.at = << "fill_input", "expect_value", "INPUT" >>
    /\ opShots = << [name |-> "fill_error", saved |-> TRUE] >>

\* The exception of call i reached the caller, or is on its way to it.
ReachesCaller(i) ==
    /\ i = Len(opOuts)
    /\ OpFailing
    /\ (opc = "except" => opPending = OpError(opCalls[i]))
    /\ (opc = "raised" => opErr = OpError(opCalls[i]))

\* C13 as stated: in the BasePage methods and in ant_select_option an
\* exception raised by a driver call always reaches the caller of the
\* method; the only call whose failure is treated as success is the wait
\* for the loading indicator.
C13_AsClaimed ==
    /\ (opName \in BasePageMethods =>
            \A i \in 1..Len(opOuts) : opOuts[i] = "error" => ReachesCaller(i))
    /\ (primaryRaised /\ Finished =>
            /\ spc = "raised"
            /\ selErr.at \in PrimaryCalls \cup {"wait_panel_hidden"})
    /\ (panelWaitFailed => spc = "raised")

\* C13 amended: an exception raised by a driver call reaches the caller of
\* the method unchanged, except where the code catches it on purpose: the
\* wait for the loading indicator and the calls of the primary strategy of
\* ant_select_option (the method goes on with the next step, the exception
\* is dropped) and the diagnostic reads of _log_element_state.
C13_CaughtOnlyOnPurpose ==
    /\ (opName \in BasePageMethods =>
            /\ \A i \in 1..Len(opOuts) : opOuts[i] = "error" =>
                    \/ opCalls[i].call = "log_element_state"
                    \/ ReachesCaller(i)
            /\ (opc = "returned" => opErr = NoError /\ opPending = NoError))
    /\ (panelWaitFailed =>
            spc = "raised" /\ selErr.at = "wait_panel_visible")
    /\ (selErr # NoError =>
            /\ spc = "raised"
            /\ selErr.at = events[Len(events)]
            /\ selErr.at \notin PrimaryCalls \cup {"wait_loading"})
    /\ (spc = "raised" => selErr # NoError)
    /\ (step1 = "timeout" => spc # "s1_wait_loading")
    /\ (primaryRaised => InFallback \/ Finished)

C13_Witness ==
    /\ opName = "click_element"
    /\ opc = "raised"
    /\ opOuts = << "error", "ok", "ok", "ok", "ok", "error" >>
    /\ opErr.at = << "click_element", "click", "ELEMENT" >>

\* C14 as stated: a failure of the screenshot capture during error handling
\* never replaces the original error: from every except clause that takes a
\* screenshot (BasePage methods, click_to_edit_personal_data_details,
\* click_to_add_banking_details) the caller receives the exception of the
\* failing call, also when the capture itself fails.
C14_AsClaimed ==
    (opc = "raised" /\ opShots # << >>) => opErr = OpError(LastCall)

\* C15 as stated: every interaction method of BasePage (navigate, click,
\* fill, type, clear, check/uncheck, select, hover, press, upload, dropdown
\* selection) that fails has attempted a screenshot before its error
\* reaches the caller.
C15_AsClaimed ==
    /\ (opName \in InteractionMethods /\ opc = "raised" => opShots # << >>)
    /\ (spc = "raised" => opShots # << >>)

ReportPdf == << "r", ".", "p", "d", "f" >>

ReportExe == << "r", ".", "e", "x", "e" >>

Made(call) == \E i \in 1..Len(opCalls) : opCalls[i].call = call

SubmitButtons == {"ADD_BANK_BUTTON", "EDIT_SUBMIT_BUTTON"}

\* Positions of the calls `call` made on selector `on`.
CallsOn(call, on) ==
    { i \in 1..Len(opCalls) : opCalls[i].call = call /\ opCalls[i].on = on }

SubmitClicks ==
    { i \in 1..Len(opCalls) :
        opCalls[i].call = "click" /\ opCalls[i].on \in SubmitButtons }

BankId == OrDefault(inp.value, DefaultBankId)

\* C17: in create_new_bank_details and edit_bank_details the submit button
\* is clicked only after the bank-id field was filled, its value was
\* verified to have exactly 10 characters and verified to equal the supplied
\* bank id; when one of the verifications fails the flow raises and the
\* submit button is never clicked.
C17_SubmitAfterVerification ==
    opName \in BankFlows =>
        /\ \A c \in SubmitClicks :
            /\ \E f \in CallsOn("fill", "BANK_ID") :
                /\ opCalls[f].arg = BankId /\ opOuts[f] = "ok"
                /\ \E v \in CallsOn("expect_value", "BANK_ID") :
                    /\ f < v /\ v < c
                    /\ opCalls[v].arg = BankId /\ opOuts[v] = "ok"
                /\ \E l \in CallsOn("expect_length", "BANK_ID") :
                    /\ f < l /\ l < c
                    /\ opCalls[l].n = 10 /\ opOuts[l] = "ok"
            /\ Len(fieldVal["BANK_ID"]) = 10
            /\ fieldVal["BANK_ID"] = BankId
        /\ (OpDone /\ (Len(BankId) # 10 \/ Store(BankId, inp.limit) # BankId)
                => opc = "raised" /\ SubmitClicks = {})
        /\ (OpFailing /\ LastCall.call \in {"expect_length", "expect_value"}
                => SubmitClicks = {})

C17_Witness ==
    /\ opName = "edit_bank_details"
    /\ opc = "raised"
    /\ Len(inp.value) = 9
    /\ LastCall.call = "expect_length"
    /\ fieldVal["BANK_ID"] = inp.value
    /\ SubmitClicks = {}

\* C18 as stated: create_new_bank_details called without arguments, on a
\* page that echoes the filled values unchanged and whose dropdown selection
\* succeeds, passes all of its validations and reaches the click on the
\* Add-bank button.
C18_AsClaimed ==
    (/\ opName = "create_new_bank_details"
     /\ inp.value = << >>
     /\ Store(DefaultBankId, inp.limit) = DefaultBankId
     /\ Len(opOuts) >= 1 /\ opOuts[1] = "ok"
     /\ OpFailing)
        => /\ LastCall.call \notin {"expect_length", "expect_value"}
           /\ LastCall.m \notin {"verify_input_value_length",
                                 "verify_element_has_value"}

Hung == opc = "hung" \/ spc = "hung"

\* The methods that make a driver call which takes no timeout.
UnboundedMethods == {"click_and_verify_download", "evaluate"}

ClaimedTarget ==
    [m \in TransitionMethods |->
        CASE m = "click_default_company_link" -> "SelfServicePage"
          [] m = "click_to_logout" -> "HomePage"
          [] m = "click_to_edit_personal_data_details" -> "EditSelfServicePage"
          [] m = "click_to_add_banking_details" -> "AddBankDetailsPage"
          [] OTHER -> "EditBankDetailsPage"]

TransitionReturns ==
    opName \in TransitionMethods =>
        /\ objs[1].page = "page"
        /\ objs[1].class \in {"LoginPage", "SelfServicePage"}
        /\ objs[1].url = IF opName = "click_default_company_link"
                         THEN "base_url" ELSE "self_service_url"
        /\ (opc = "returned" =>
                /\ Len(objs) = 2
                /\ opResult = 2
                /\ objs[opResult].class = ClaimedTarget[opName]
                /\ objs[opResult].page = objs[1].page)
        /\ (opc # "returned" => Len(objs) = 1 /\ opResult = 0)

\* The page objects that exist are left as they are.
ObjectsKept ==
    opName \in TransitionMethods =>
        \A i \in 1..Len(objs) : objs'[i] = objs[i]

\* C20: a page-transition method returns a new page object of the class of
\* the target page, bound to the same page, and leaves the page reference
\* and the url of the page object it was called on unchanged.
C20_TransitionReturnsNewObject ==
    /\ []TransitionReturns
    /\ [][ObjectsKept]_vars

C20_Witness ==
    /\ opName = "click_to_logout"
    /\ opc = "returned"
    /\ opResult = 2
    /\ objs[2] = [class |-> "HomePage", page |-> "page", url |-> "base_url"]
    /\ objs[1].class = "SelfServicePage"

\* ------------------------------------------------------------------------
\* Properties of the browser, context and page fixtures
\* ------------------------------------------------------------------------

\* A page-object call is made by the setup, the test body or the logout.
PageObjectCall ==
    \/ Len(started') > Len(started)
    \/ bodyRuns' > bodyRuns
    \/ Len(clicks') > Len(clicks)

CurrentPage == pages[Len(pages)]

CurrentContext == contexts[Len(contexts)]

\* C21: no page-object call is made on a closed page: every call of the
\* setup, of the test body and of the teardown logout is made while the page
\* and its context are open, nothing is called between the closing of the
\* page and the start of the next test, and the context is closed only
\* after the page was closed.
C21_CallsBeforeClose ==
    /\ [][PageObjectCall =>
            /\ pageOpen /\ ctxOpen
            /\ CurrentPage.open /\ CurrentContext.open
            /\ CurrentPage.test = testNo
            /\ pageOpen' /\ ctxOpen']_vars
    /\ [][~pageOpen /\ testNo' = testNo =>
            /\ started' = started
            /\ bodyRuns' = bodyRuns
            /\ clicks' = clicks]_vars
    /\ [][ctxOpen /\ ~ctxOpen' => ~pageOpen /\ ~CurrentPage.open]_vars
    /\ [](~ctxOpen => ~pageOpen)
    /\ [](pageOpen <=> CurrentPage.open)
    /\ [](ctxOpen <=> CurrentContext.open)

C21_Witness ==
    /\ fpc = "context_closed"
    /\ yielded
    /\ bodyRuns = 1
    /\ clicks = LogoutSteps
    /\ ~CurrentPage.open
    /\ ~CurrentContext.open

OpenPages == { i \in 1..Len(pages) : pages[i].open }

OpenContexts == { i \in 1..Len(contexts) : contexts[i].open }

\* C22: the browser is launched once; test number n has the n-th context
\* and the n-th page, created for it, the page inside that context; at most
\* one page is open at a time and it belongs to the running test; nothing
\* created for an earlier test is open; when the fixtures of a test are
\* finalized its page and context are closed, whatever the outcome of the
\* test.
C22_OwnPagePerTest ==
    /\ browserLaunches = 1
    /\ Len(contexts) = testNo
    /\ Len(pages) = testNo
    /\ \A i \in 1..Len(contexts) : contexts[i].test = i
    /\ \A i \in 1..Len(pages) : pages[i].test = i /\ pages[i].context = i
    /\ OpenPages \subseteq {testNo}
    /\ OpenContexts \subseteq {testNo}
    /\ (fpc = "page_ready" => OpenPages = {testNo} /\ OpenContexts = {testNo})
    /\ (fpc = "context_closed" => OpenPages = {} /\ OpenContexts = {})

C22_Witness ==
    /\ testNo = 2
    /\ fpc = "context_closed"
    /\ bodyOutcome = "failed"
    /\ OpenPages = {}
    /\ OpenContexts = {}

\* ------------------------------------------------------------------------
\* Diagnostic screenshots
\* ------------------------------------------------------------------------

FlowScreenshots == { FlowScreenshot(o) : o \in Methods } \ {"none"}

\* File a screenshot attempt of a page-object method writes.
FileOf(shot) ==
    IF shot.name \in FlowScreenshots THEN ScreenshotFile(shot.name)
    ELSE TakeScreenshotFile(shot.name)

\* C23 as stated: every screenshot taken because of a failure is the file
\* screenshots/<context>_<unixtimestamp>.png, and the failure of a method
\* call produces one screenshot, not several.
C23_AsClaimed ==
    /\ \A i \in 1..Len(opShots) :
        /\ FileOf(opShots[i]).dir = "screenshots"
        /\ \E context \in {opShots[i].name} :
            FileOf(opShots[i]).file = << context, "_", "timestamp", ".png" >>
    /\ Len(opShots) <= 1

\* ------------------------------------------------------------------------
\* Repeated checks
\* ------------------------------------------------------------------------

\* Result of the call that just ended.
ThisResult == [outcome |-> opc, err |-> opErr]

PageUnchanged ==
    /\ inp' = inp
    /\ fieldVal' = fieldVal
    /\ savedAt' = savedAt
    /\ objs' = objs

Group(g, names) == { << g, n >> : n \in names }

\* The selector constants utils/constants.py defines, by group.
Catalog ==
    Group("HOME_PAGE", {"TITLE"})
    \cup Group("LOGIN_PAGE",
               {"EMAIL_INPUT", "PASSWORD_INPUT", "SUBMIT_BUTTON",
                "PASSWORD_DISABLED", "DEFAULT_COMPANY", "FLOUR_MILLS_COMPANY",
                "ERROR_TOAST", "PASSWORD_BLANK_ERROR", "VALIDATION_ERROR",
                "ERROR_PASSWORD_BLANK", "ERROR_USERNAME_BLANK",
                "ERROR_INVALID_CREDENTIALS", "DEFAULT_LINK"})
    \cup Group("SELF_SERVICE_PAGE",
               {"PERSONAL_NAME", "MM_PROFILE", "LOGOUT_LINK", "EDIT_LINK",
                "EDIT_SUBMIT_BUTTON", "ADD_BANK_DETAIL_BUTTON"})
    \cup Group("EDIT_SELF_SERVICE_PAGE",
               {"OTHER_NAME", "JOB_TITLE", "EDIT_SUBMIT_BUTTON"})

\* The selector constants the body of flow o looks up.
References(o) ==
    CASE o = "verify_home_page_loads" ->
            Group("HOME_PAGE", {"TITLE"})
            \cup Group("LOGIN_PAGE", {"PASSWORD_DISABLED"})
      [] o = "click_default_company_link" ->
            Group("LOGIN_PAGE", {"DEFAULT_LINK"})
      [] o = "click_to_logout" ->
            Group("SELF_SERVICE_PAGE", {"MM_PROFILE", "LOGOUT_LINK"})
      [] o = "click_to_edit_personal_data_details" ->
            Group("SELF_SERVICE_PAGE", {"EDIT_LINK"})
      [] o = "click_to_add_banking_details" ->
            Group("SELF_SERVICE_PAGE",
                  {"CLICK_BANK_DETAIL", "ADD_NEW_BANK_DETAIL_BUTTON"})
      [] o = "click_to_edit_bank_details" ->
            Group("SELF_SERVICE_PAGE",
                  {"CLICK_BANK_DETAIL", "EDIT_BANK_BUTTON"})
      [] o = "create_new_bank_details" ->
            Group("ADD_BANK_DETAILS_PAGE",
                  {"BANK_NAME_DROPDOWN", "BANK_NAME", "BANK_ID", "SORT_CODE",
                   "ADD_BANK_BUTTON"})
      [] o = "edit_bank_details" ->
            Group("EDIT_BANK_DETAILS_PAGE",
                  {"BANK_NAME_DROPDOWN", "BANK_NAME", "BANK_ID", "SORT_CODE",
                   "EDIT_SUBMIT_BUTTON"})
      [] OTHER -> {}

\* C25 as stated: every selector constant the flow being run looks up is
\* defined in the catalog.
C25_AsClaimed == References(opName) \subseteq Catalog

\* ------------------------------------------------------------------------
\* log_method
\* ------------------------------------------------------------------------

\* C26: the wrapper of a method decorated with log_method writes ENTERING
\* before the method runs and, when the method ended, exactly one more
\* entry, SUCCESS after a return and FAILED after an exception; the caller
\* gets the result the method returned, or the exception the method raised.
C26_WrapperTransparent ==
    opName \in LogMethods =>
        /\ (opc \in {"run", "except", "hung"} =>
                opLog = << "ENTERING" >> /\ funcOut = NotEnded)
        /\ (opc = "returned" =>
                /\ opLog = << "ENTERING", "SUCCESS" >>
                /\ funcOut.outcome = "returned"
                /\ opResult = funcOut.result
                /\ opErr = NoError)
        /\ (opc = "raised" =>
                /\ opLog = << "ENTERING", "FAILED" >>
                /\ funcOut.outcome = "raised"
                /\ opErr = funcOut.err
                /\ opErr # NoError)

C26_Witness ==
    /\ opName = "click_to_logout"
    /\ opc = "raised"
    /\ opLog = << "ENTERING", "FAILED" >>
    /\ opErr = OpError(LastCall)
    /\ LastCall.on = "LOGOUT_LINK"

\* ------------------------------------------------------------------------
\* Further properties of ant_select_option
\* ------------------------------------------------------------------------

\* C27 as stated: one invocation of ant_select_option clicks an option
\* element at most once: after a click of the primary strategy went through,
\* the fallback strategy clicks no option.
C27_AsClaimed == Len(clicked) <= 1

\* ------------------------------------------------------------------------
\* Further properties of authenticated_page
\* ------------------------------------------------------------------------

AuthErrorShot == \E i \in 1..Len(shots) : shots[i].name = "auth_error"

\* C28 as stated: the failure handler of authenticated_page, that is the
\* 'Authentication setup failed' log entry and the auth_error screenshot,
\* runs only for a failure of the setup, before the page was yielded; a
\* failure of the logout flow does not reach it.
C28_AsClaimed ==
    /\ (errorLogged \/ AuthErrorShot \/ fpc = "handler" =>
            failedIn = "setup" /\ ~yielded /\ logoutCalls = 0)
    /\ (failedIn = "teardown" => ~errorLogged /\ ~AuthErrorShot)

\* ------------------------------------------------------------------------
\* Further properties of click_and_verify_download
\* ------------------------------------------------------------------------

Rejected ==
    /\ opName = "click_and_verify_download"
    /\ OpFailing
    /\ LastCall.call \in {"assert_exists", "assert_extension"}

\* C29 as stated: when click_and_verify_download rejects a download, nothing
\* was written at save_path; the download is saved only after the file was
\* found to exist and its extension to be allowed.
C29_AsClaimed ==
    /\ (Rejected => savedAt = "none")
    /\ (opName = "click_and_verify_download" /\ savedAt # "none" =>
            Made("assert_exists") /\ Made("assert_extension"))

\* ------------------------------------------------------------------------
\* Step 1 of ant_select_option
\* ------------------------------------------------------------------------

\* C30: step 1 of ant_select_option never ends the operation: whether the
\* wait for the loading indicator succeeds or times out with the indicator
\* still visible, the next call is the click on the dropdown trigger and no
\* exception of the wait leaves the method.
C30_Step1NeverAborts ==
    /\ [][spc = "s1_wait_loading" =>
            /\ spc' = "s2_click_trigger"
            /\ selErr' = NoError
            /\ step1' \in {"ok", "timeout"}]_vars
    /\ [](Len(events) >= 2 =>
            events[1] = "wait_loading" /\ events[2] = "click_trigger")
    /\ [](selErr.at # "wait_loading")
    /\ [](step1 = "timeout" <=> (indicator = "visible" /\ Len(events) >= 1))

C30_Witness ==
    /\ indicator = "visible"
    /\ step1 = "timeout"
    /\ triggerClicks = 1
    /\ events = << "wait_loading", "click_trigger" >>
====
